---- MODULE Spec2Model ----
(***************************************************************************)
(* async_fetcher: AsyncFetch (fetch.py) with TCPConnectorMixIn (utils.py). *)
(*                                                                         *)
(* One orchestrator instance.  Its task_map is a sequence of task bundles  *)
(* (position i is the i-th key of the OrderedDict).  go() opens a client   *)
(* session, starts one fetch() coroutine per bundle and gathers them.      *)
(* Each coroutine runs the retry loop of fetch(); the remote endpoint is   *)
(* the environment: every request ends with a response (a status, then a   *)
(* body that decodes or not), a TimeoutError or a ClientOSError.  The      *)
(* event loop is run by go() only: coroutines step while it runs.          *)
(***************************************************************************)
EXTENDS Integers, Sequences, FiniteSets, TLC

\* ------------------------------------------------------------------ bounds
\* Largest retry count given to AsyncFetch(num_retries=) and mk_task(num_retries=).
MaxNumRetries == 2
\* Number of calls (go, get_tcp_connector, __del__) made on the orchestrator.
MaxCalls == 2

\* ------------------------------------------------------- program constants
\* fetch.py:217  response.status in [524, 504, 502, 408]
RetryableStatuses == {524, 504, 502, 408}

\* Statuses the modelled endpoints answer with: two retryable, two not.
EndpointStatuses == {200, 404, 502, 408}

\* Keys of the task map, in insertion order (tests/test_fetcher.py:84-88).
Keys == <<"first", "second">>

\* ------------------------------------------------------------------ values
\* Python None, and the empty dict {}, as decoded bodies / result values.
NoneValue == "None"
EmptyDict == "{}"

\* The url of the i-th task; the endpoint echoes it in its body.
Url(i) == i
Payload(i) == <<"payload", Url(i)>>

\* What a response body decodes to: JSON null, {} or the echoed payload.
DecodedBodies(i) == {<<NoneValue>>, <<EmptyDict>>, Payload(i)}

\* Further Python values, as <<type, items, number>>: a non-empty dict with
\* its keys (number: the value of ['error']['code'] when it has that key),
\* a str / bytes / list / tuple with its items, an int with its number, a
\* FormData.
PyDict(ks, code) == <<"dict", ks, code>>
PyStr(items) == <<"str", items, 0>>
PyInt(n) == <<"int", {}, n>>
PyTuple(items) == <<"tuple", items, 0>>
PyBytes(items) == <<"bytes", items, 0>>
PyFormData == <<"FormData", {"field"}, 0>>

\* isinstance(v, cls)
isinstance(v, cls) ==
    IF v = <<NoneValue>> THEN FALSE
    ELSE IF v = <<EmptyDict>> THEN cls = "dict"
    ELSE IF Len(v) = 2 THEN cls = "dict"
    ELSE IF Len(v) = 4 THEN cls = "str"
    ELSE v[1] = cls

\* bool(v): None, 0 and empty containers are false.
truthy(v) ==
    IF v \in {<<NoneValue>>, <<EmptyDict>>} THEN FALSE
    ELSE IF Len(v) # 3 THEN TRUE
    ELSE IF v[1] = "int" THEN v[3] # 0
    ELSE v[2] # {}

\* key in v, for a dict v
contains(v, key) == Len(v) = 3 /\ v[1] = "dict" /\ key \in v[2]

\* fetch_result.py:11-17  FetchResult.__init__: result or {}
FetchResult(headers, result, status) ==
    [headers |-> headers,
     status  |-> status,
     result  |-> IF truthy(result) THEN result ELSE <<EmptyDict>>]

\* fetch_result.py:32-34  FetchResult.is_jsonrpc
is_jsonrpc(self) == isinstance(self.result, "dict") /\ contains(self.result, "jsonrpc")

\* A status property that takes the code of any 'error' key, JSON-RPC or not.
FetchResult_status_any_error(self) ==
    IF contains(self.result, "error") THEN self.result[3] ELSE self.status

\* fetch_result.py:51-55  FetchResult.status
FetchResult_status(self) ==
    IF is_jsonrpc(self) /\ contains(self.result, "error")
    THEN self.result[3]
    ELSE self.status

\* rest_framework.status.is_success, called at fetch_result.py:36-37
is_success(code) == 200 <= code /\ code <= 299

\* fetch_result.py:22-23  FetchResult.__bool__
FetchResult_bool(self) == is_success(FetchResult_status(self))

\* -------------------------------------------------------------- task builder
\* A dict with str keys and values is the set of its <<key, value>> items; an
\* optional dict argument (dict_or_none) says whether it is None.
NoneDict == [is_none |-> TRUE, items |-> {}]
Dict(items) == [is_none |-> FALSE, items |-> items]
Has(items, key) == \E p \in items : p[1] = key
Put(items, key, value) == {p \in items : p[1] # key} \cup {<<key, value>>}

\* bool(s) of a str_or_none
truthy_str(s) == s \notin {"", NoneValue}

\* str.lower() on the method / response_type names used
lower(s) ==
    IF s = "POST" THEN "post" ELSE IF s = "GET" THEN "get"
    ELSE IF s = "JSON" THEN "json" ELSE s

\* json.dumps(data, cls=json_encoder): the JSON text of a value, a str.
json_dumps(v) == <<"json", v[1], v[2], v[3]>>

\* fetch.py:140-141  furl(url).set(query).url: a url is <<base, query items>>
set_query(url, query) == IF query.items # {} THEN <<url[1], query.items>> ELSE url

\* fetch.py:143  headers = headers or {}: the dict mk_task works on, and
\* whether it is the caller's object (a non-empty dict) or a fresh one.
headers_or_empty(headers) == IF headers.items # {} THEN headers.items ELSE {}
aliased(headers) == headers.items # {}

\* A content-type detection with the two types swapped.
autodetect_swapped(items, data, autodetect_content_type) ==
    IF autodetect_content_type /\ ~Has(items, "content-type")
    THEN IF isinstance(data, "dict") THEN Put(items, "content-type", "text/html")
         ELSE IF isinstance(data, "str") THEN Put(items, "content-type", "application/json")
         ELSE items
    ELSE items

\* fetch.py:145-150  content-type autodetection
autodetect(items, data, autodetect_content_type) ==
    IF autodetect_content_type /\ ~Has(items, "content-type")
    THEN IF isinstance(data, "dict") THEN Put(items, "content-type", "application/json")
         ELSE IF isinstance(data, "str") THEN Put(items, "content-type", "text/html")
         ELSE items
    ELSE items

\* fetch.py:152-154  serialization of the request data
serialize(data) ==
    IF truthy(data) /\ ~isinstance(data, "bytes") /\ ~isinstance(data, "str")
                    /\ ~isinstance(data, "FormData")
    THEN json_dumps(data)
    ELSE data

\* fetch.py:91-173  AsyncFetch.mk_task called with the arguments a: the
\* bundle it returns and the caller's headers argument after the call (the
\* assignments at 148, 150, 157 and 160 write to the caller's dict when
\* `headers or {}` is that dict).
mk_task(a) ==
    LET url == set_query(a.url, a.query)
        h1 == autodetect(headers_or_empty(a.headers), a.data, a.autodetect_content_type)
        data == serialize(a.data)
        h2 == IF truthy_str(a.api_key) THEN Put(h1, "api-key", a.api_key) ELSE h1
        h3 == IF truthy_str(a.language_code)
              THEN Put(h2, "accept-language", a.language_code) ELSE h2
    IN  [bundle |-> [method |-> lower(a.method),
                     url |-> url,
                     data |-> IF truthy(data) THEN data ELSE <<EmptyDict>>,
                     headers |-> h3,
                     response_type |-> lower(a.response_type),
                     timeout |-> a.timeout,
                     do_not_wait |-> a.do_not_wait,
                     num_retries |-> a.num_retries,
                     fail_silently |-> a.fail_silently],
         headers |-> IF aliased(a.headers) THEN Dict(h3) ELSE a.headers]

\* fetch.py:214 and 246  FetchResult(result=None, headers=None, status=0)
EmptyResult == FetchResult(NoneValue, <<NoneValue>>, 0)

\* The value of a coroutine that has not returned.
NoResult == [headers |-> NoneValue, status |-> -1, result |-> <<"unset">>]

\* An exception object.  type "None" stands for "no exception".
Exception(type, url, original, left, max, code) ==
    [type |-> type, url |-> url, original_exception |-> original,
     retries_left |-> left, max_retries |-> max, response_code |-> code]

NoException == Exception("None", 0, "None", 0, 0, 0)

\* exceptions.py:57-70  AsyncFetchNetworkError.__init__
AsyncFetchNetworkError(url, original, left, max, code) ==
    Exception("AsyncFetchNetworkError", url, original, left, max, code)

\* exceptions.py:46-51  AsyncFetchReceiveError.__init__
AsyncFetchReceiveError(original) ==
    Exception("AsyncFetchReceiveError", 0, original.type, 0, 0, 0)

\* The ValueError a body decoder raises (json.JSONDecodeError, UnicodeDecodeError).
ValueError(url) == Exception("ValueError", url, "None", 0, 0, 0)

\* The RuntimeError('Session is closed') of aiohttp's ClientSession.request.
RuntimeError(url) == Exception("RuntimeError", url, "None", 0, 0, 0)

\* ------------------------------------------------------------------- state
VARIABLES
    task_map,         \* self.task_map: sequence of <<key, bundle>> in insertion order
    max_retries,      \* self.max_retries (= num_retries given to AsyncFetch)
    supplied,         \* the tcp_connector argument of AsyncFetch(...): an id or NoConnector
    connector_owner,  \* self._connector_owner
    tcp_connector,    \* self._tcp_connector: a connector id, or NoConnector
    connectors,       \* ids of the TCPConnector objects that exist
    closed,           \* ids of the connectors whose .closed is True
    session,          \* the ClientSession of the current / last go()
    called,           \* go() has entered run_until_complete and _go has not started
    queued,           \* the orphans whose wake-up can still run before _go starts
    go_pc,            \* where go() is: "idle"; "gather" (_go awaits gather);
                      \* "gathered" (gather is done, _go not yet over);
                      \* "exited" (_go is done); "stopping" (loop.stop() called);
                      \* "returned" / "raised" (go() is back in its caller)
    go_result,        \* the OrderedDict go() returned: sequence of <<key, FetchResult>>
    go_error,         \* the exception go() raised
    coro,             \* the fetch() coroutine of each bundle of the current go()
    finished,         \* the coroutines that are done, in completion order
    issued,           \* per coroutine: number of session.request calls made
    failures,         \* per coroutine: number of passes through the except branch
    waits,            \* per coroutine: number of asyncio.sleep(retry_timeout) completed
    answers,          \* per coroutine: how its attempts have ended so far, see Answered
    orphans,          \* coroutines of raised go() calls that are still pending on the loop
    refused,          \* a coroutine has called session.request on a closed session
    ran,              \* coroutines that ran in the loop iteration under way, kept
                      \* from the moment gather has its outcome
    fr,               \* a FetchResult object held by the caller
    fr_seen,          \* what the caller has read off fr: its status, its truth value
    mk_args,          \* the arguments the caller holds for AsyncFetch.mk_task
    mk_ret,           \* the mk_task calls made with them, in order
    calls             \* number of calls made on the orchestrator

vars == <<task_map, max_retries, supplied, connector_owner, tcp_connector, connectors,
          closed, session, called, queued, go_pc, go_result, go_error, coro, finished, issued, failures,
          waits, answers, orphans, refused, ran, fr, fr_seen, mk_args, mk_ret, calls>>

\* What the caller holds apart from the orchestrator; no method of the
\* orchestrator touches it.
caller == <<fr, fr_seen, mk_args, mk_ret>>
config == <<task_map, max_retries, supplied, connector_owner, caller>>
pool == <<tcp_connector, connectors, closed>>
run == <<session, called, queued, go_pc, go_result, go_error, coro, finished, issued, failures, waits,
         answers, orphans, refused, ran>>

\* The outcomes of the attempts one coroutine has made so far, summarised
\* (an attempt is over when its request raised, was answered with a
\* retryable status or for a do_not_wait bundle, or was answered and the
\* read of its body is over):
\*   <<"none">>       no attempt is over yet
\*   <<"errors">>     every attempt raised TimeoutError or ClientOSError
\*   <<"retryable">>  every attempt raised or got a retryable status, one at least a status
\*   <<"status", s>>  an attempt got the non-retryable status s and its body was
\*                    read, or was not asked for (do_not_wait)
Answered(before, status) ==
    IF before[1] = "status" THEN before
    ELSE IF status \in RetryableStatuses THEN <<"retryable">>
    ELSE <<"status", status>>

Errored(before) == IF before = <<"none">> THEN <<"errors">> ELSE before

\* The summary after an attempt answered `status` that left the coroutine as c2.
Outcome(before, status, c2) ==
    IF c2.pc = "body" THEN before
    ELSE IF c2.pc = "release" THEN Answered(before, status)
    ELSE IF c2.pc = "sleep" /\ c2.last_exception.response_code = 0 THEN Errored(before)
    ELSE Answered(before, status)

NoConnector == 0
\* The connector handed to AsyncFetch(tcp_connector=...) by its external owner.
ExternalConnector == 1

NoSession == [connector |-> NoConnector, connector_owner |-> FALSE, closed |-> TRUE]

N == Len(task_map)
Tasks == 1..N
keys(tm) == [k \in 1..Len(tm) |-> tm[k][1]]
values(tm) == [k \in 1..Len(tm) |-> tm[k][2]]

\* fetch.py:256-262  _go has started and go() has not returned or raised.
BatchRunning == go_pc \in {"gather", "gathered", "exited", "stopping"}

\* fetch.py:265  the loop runs from the call of run_until_complete, before
\* _go executes its first line, until the iteration in which it was stopped
\* is over.
LoopRunning == called \/ BatchRunning

\* fetch.py:162-172  the fields of a bundle that fetch() branches on
Bundles(i) ==
    [url : {Url(i)}, num_retries : -1..MaxNumRetries,
     do_not_wait : BOOLEAN, fail_silently : BOOLEAN]

\* The task maps AsyncFetch is constructed with: every map of one bundle, and
\* the maps of several bundles whose num_retries is the default -1 or 0, at
\* most one of them leaving its budget to the instance.
BatchRetries == {-1, 0}

TaskMaps ==
    UNION {{[k \in 1..n |-> <<Keys[k], f[k]>>] :
              f \in {g \in [1..n -> UNION {Bundles(i) : i \in 1..n}] :
                        /\ \A k \in 1..n :
                              (g[k].url = Url(k)) /\
                              ((n > 1) => (g[k].num_retries \in BatchRetries))
                        /\ Cardinality({k \in 1..n : g[k].num_retries = -1}) <= 1}} :
           n \in 1..Len(Keys)}

\* A coroutine object created by self.fetch(session, bundle), not yet started.
NewCoroutine ==
    [pc |-> "created", num_retries |-> 0, max_retries |-> 0, session |-> NoConnector,
     status |-> 0, last_exception |-> NoException, result |-> NoResult, raised |-> NoException]

\* fetch.py:92-106  the defaults of mk_task's parameters, for a url
DefaultArgs ==
    [url |-> <<"http://test", {}>>, method |-> "get", data |-> <<NoneValue>>,
     headers |-> NoneDict, api_key |-> "", response_type |-> "json",
     language_code |-> NoneValue, timeout |-> NoneValue, query |-> NoneDict,
     do_not_wait |-> FALSE, num_retries |-> -1, fail_silently |-> FALSE,
     autodetect_content_type |-> TRUE]

\* Reading nothing off a FetchResult yet.
NotSeen == [status_read |-> FALSE, status |-> 0, bool_read |-> FALSE, bool |-> FALSE]

\* A caller that holds no FetchResult of its own and has built no task.
NoCaller ==
    /\ fr = FetchResult(NoneValue, <<NoneValue>>, 0)
    /\ fr_seen = NotSeen
    /\ mk_args = DefaultArgs
    /\ mk_ret = <<>>

\* An ownership flag that is set whatever connector was supplied.
connector_owner_always(tcp) == TRUE

\* fetch.py:83  self._connector_owner = not bool(tcp_connector)
connector_owner_of(tcp) == ~(tcp # NoConnector)

\* fetch.py:48-89  AsyncFetch.__init__.  An instance with several bundles
\* is given the largest default budget and no connector of its own.
Init ==
    /\ task_map \in TaskMaps
    /\ max_retries \in 0..MaxNumRetries
    /\ supplied \in {NoConnector, ExternalConnector}
    /\ (Len(task_map) > 1) => (max_retries = MaxNumRetries /\ supplied = NoConnector)
    /\ connector_owner = connector_owner_of(supplied)
    /\ tcp_connector = supplied
    /\ connectors = {supplied} \ {NoConnector}
    /\ closed = {}
    /\ session = NoSession
    /\ called = FALSE
    /\ queued = {}
    /\ go_pc = "idle"
    /\ go_result = <<>>
    /\ go_error = NoException
    /\ coro = [i \in Tasks |-> NewCoroutine]
    /\ finished = <<>>
    /\ issued = [i \in Tasks |-> 0]
    /\ failures = [i \in Tasks |-> 0]
    /\ waits = [i \in Tasks |-> 0]
    /\ answers = [i \in Tasks |-> <<"none">>]
    /\ orphans = {}
    /\ refused = FALSE
    /\ ran = {}
    /\ calls = 0
    /\ NoCaller

\* ------------------------------------------------- connection pool manager
\* utils.py:26-43  get_tcp_connector: the connector it returns and memoizes,
\* and whether it had to construct one.
get_tcp_connector ==
    IF ~connector_owner
    THEN [connector |-> tcp_connector, created |-> FALSE]
    ELSE IF tcp_connector # NoConnector /\ tcp_connector \notin closed
    THEN [connector |-> tcp_connector, created |-> FALSE]
    ELSE [connector |-> Cardinality(connectors) + 1, created |-> TRUE]

\* The effect of evaluating self.get_tcp_connector() on the instance.
Memoize(got) ==
    /\ tcp_connector' = got.connector
    /\ connectors' = IF got.created THEN connectors \cup {got.connector} ELSE connectors

\* A call of get_tcp_connector() by the user of the instance
\* (tests/test_fetcher.py:97).
Acquire ==
    /\ ~LoopRunning
    /\ calls < MaxCalls
    /\ calls' = calls + 1
    /\ Memoize(get_tcp_connector)
    /\ UNCHANGED <<config, closed, run>>

\* A teardown that fetches the connector and forgets to close it.
Del_leaky ==
    /\ ~LoopRunning
    /\ calls < MaxCalls
    /\ calls' = calls + 1
    /\ IF connector_owner
       THEN Memoize(get_tcp_connector) /\ closed' = closed
       ELSE UNCHANGED pool
    /\ UNCHANGED <<config, run>>

\* utils.py:45-52  __del__
Del ==
    /\ ~LoopRunning
    /\ calls < MaxCalls
    /\ calls' = calls + 1
    /\ IF connector_owner
       THEN LET got == get_tcp_connector IN
            /\ Memoize(got)
            /\ closed' = closed \cup {got.connector}
       ELSE UNCHANGED pool
    /\ UNCHANGED <<config, run>>

\* A session created with aiohttp's default connector_owner=True.
get_client_session_owning(connector) ==
    [connector |-> connector, connector_owner |-> TRUE, closed |-> FALSE]

\* fetch.py:175-179  get_client_session
get_client_session(connector) ==
    [connector |-> connector, connector_owner |-> connector_owner, closed |-> FALSE]

\* The connectors closed when the `async with` block of _go (fetch.py:257) is
\* left: the session closes its connector iff it was created as its owner.
SessionExit(s) ==
    IF ~s.closed /\ s.connector # NoConnector /\ s.connector_owner
    THEN closed \cup {s.connector}
    ELSE closed

\* ------------------------------------------------------------ orchestrator
\* A coroutine that is handed no session and requests through one of its
\* own, made without the instance's connector.
fetch_own_session(s, b) == NewCoroutine

\* fetch.py:258  self.fetch(session, bundle): the coroutine object, bound to
\* the session of the batch; a session is told by the connector it is on.
fetch(s, b) == [NewCoroutine EXCEPT !.session = s.connector]

\* fetch.py:264-265  go() is called: run_until_complete wraps _go() in a
\* task, whose first step is put behind the callbacks already on the loop,
\* and runs the loop.  The wake-ups the previous run left queued when it
\* stopped run first, each once, in that same iteration.
GoCall ==
    /\ ~LoopRunning
    /\ calls < MaxCalls
    /\ called' = TRUE
    /\ queued' = orphans
    /\ UNCHANGED <<config, pool, session, go_pc, go_result, go_error, coro, finished,
                   issued, failures, waits, answers, orphans, refused, ran, calls>>

\* fetch.py:256-259  the first step of _go, up to `await asyncio.gather(*tasks)`.
\* `coro` holds the coroutines of the current go() only.
Go ==
    /\ called
    /\ calls' = calls + 1
    /\ called' = FALSE
    /\ queued' = {}
    /\ LET got == get_tcp_connector IN
       /\ Memoize(got)
       /\ session' = get_client_session(got.connector)
    /\ go_pc' = "gather"
    /\ go_result' = <<>>
    /\ go_error' = NoException
    /\ coro' = [i \in Tasks |-> fetch(session', values(task_map)[i])]
    /\ finished' = <<>>
    /\ issued' = [i \in Tasks |-> 0]
    /\ failures' = [i \in Tasks |-> 0]
    /\ waits' = [i \in Tasks |-> 0]
    /\ answers' = [i \in Tasks |-> <<"none">>]
    /\ ran' = {}
    /\ UNCHANGED <<config, closed, orphans, refused>>

\* A gather that collects the results as its children finish.
gather_as_completed(c, order) == [k \in 1..Len(order) |-> c[order[k]].result]

\* asyncio.gather(*tasks) (fetch.py:259), its children having finished in
\* `order`: the results in the order of its arguments.
gather(c, order) == [i \in 1..Len(task_map) |-> c[i].result]

\* fetch.py:260  zip(self.task_map.keys(), res)
zip(ks, res) ==
    [k \in 1..(IF Len(ks) < Len(res) THEN Len(ks) ELSE Len(res)) |-> <<ks[k], res[k]>>]

\* A _go that wraps whatever exception reaches it.
GoError_wrap_all(e) == AsyncFetchReceiveError(e)

\* fetch.py:261-262  except ValueError: raise self.receive_error_class(...)
GoError(e) == IF e.type = "ValueError" THEN AsyncFetchReceiveError(e) ELSE e

\* What is left on the loop of a coroutine that is unfinished when the loop
\* stops: where it is suspended and whether its loop has an attempt left.
Orphan(c) == [pc |-> c.pc, retrying |-> c.num_retries > 0]

\* fetch.py:259, 265  neither gather nor run_until_complete cancels a
\* coroutine: those unfinished when go() ends stay pending on the loop.
Orphaned(coro2) ==
    {Orphan(coro2[j]) : j \in {k \in Tasks : coro2[k].pc \notin {"returned", "raised"}}}

\* A gather with return_exceptions=True: it waits for every child and never
\* raises, exceptions are results.
gather_settled_return_exceptions(c, order) ==
    [done |-> \A j \in DOMAIN c : c[j].pc \in {"returned", "raised"}, raiser |-> 0]

\* asyncio.gather(*tasks) (fetch.py:259), its children having finished in
\* `order`: it is done once a child has raised, with the exception of the
\* first child that raised (raiser), or once every child has returned
\* (raiser 0).
gather_settled(c, order) ==
    LET raisers == {k \in 1..Len(order) : c[order[k]].pc = "raised"} IN
    IF raisers # {}
    THEN [done |-> TRUE,
          raiser |-> order[CHOOSE k \in raisers : \A m \in raisers : k <= m]]
    ELSE [done |-> \A j \in DOMAIN c : c[j].pc = "returned", raiser |-> 0]

\* A _go whose coroutines count their attempts down on one counter of the
\* instance instead of a local of fetch.
Settle_shared_retries(i, c2) ==
    LET coro2 == [j \in Tasks |->
                    IF j = i THEN c2
                    ELSE IF coro[j].pc \in {"request", "sleep"} /\ c2.pc \in {"request", "sleep"}
                    THEN [coro[j] EXCEPT !.num_retries = c2.num_retries]
                    ELSE coro[j]]
        order == IF c2.pc \in {"returned", "raised"} THEN Append(finished, i) ELSE finished
    IN  /\ coro' = coro2
        /\ finished' = order
        /\ ran' = IF go_pc # "gather" \/ gather_settled(coro2, order).done
                  THEN ran \cup {i} ELSE {}
        /\ refused' = (refused \/ (c2.pc = "raised" /\ c2.raised.type = "RuntimeError"))

\* Coroutine i has run and is now c2: one callback of the loop.  When that
\* ends it, its task is done and joins `finished`; gather and _go hear of it
\* in later iterations of the loop (GatherDone, GoExit).
Settle(i, c2) ==
    LET coro2 == [coro EXCEPT ![i] = c2]
        order == IF c2.pc \in {"returned", "raised"} THEN Append(finished, i) ELSE finished
    IN  /\ coro' = coro2
        /\ finished' = order
        /\ ran' = IF go_pc # "gather" \/ gather_settled(coro2, order).done
                  THEN ran \cup {i} ELSE {}
        /\ refused' = (refused \/ (c2.pc = "raised" /\ c2.raised.type = "RuntimeError"))

\* fetch.py:259  the done-callback gather put on its children runs, in the
\* loop iteration after the child finished: gather's future gets the first
\* exception, or the list of results once every child has returned, and _go
\* is scheduled to resume.
GatherDone ==
    /\ go_pc = "gather"
    /\ gather_settled(coro, finished).done
    /\ go_pc' = "gathered"
    /\ ran' = {}
    /\ UNCHANGED <<config, pool, session, called, queued, go_result, go_error, coro,
                   finished, issued, failures, waits, answers, orphans, refused, calls>>

\* fetch.py:257  _go resumes from `await asyncio.gather(*tasks)`, one loop
\* iteration after gather was done, and leaves `async with`: the session's
\* __aexit__ closes it, and a session that owns its connector closes that
\* and awaits the close.  With aiohttp from 3.8 on that await gives the loop
\* one iteration: _go is suspended in __aexit__, session and connector
\* closed, and what is due on the loop runs before _go goes on.
SessionClose ==
    /\ go_pc = "gathered"
    /\ ~session.closed
    /\ session.connector_owner
    /\ session' = [session EXCEPT !.closed = TRUE]
    /\ closed' = SessionExit(session)
    /\ ran' = {}
    /\ UNCHANGED <<config, tcp_connector, connectors, called, queued, go_pc, go_result,
                   go_error, coro, finished, issued, failures, waits, answers, orphans,
                   refused, calls>>

\* fetch.py:257-262  _go is over: it left `async with` in this step (a
\* session whose close does not suspend) or was suspended in its __aexit__
\* (SessionClose) and is resumed.  The exception of gather leaves _go,
\* wrapped if it is a ValueError; or the results are returned, zipped with
\* the keys.
GoExit ==
    /\ go_pc = "gathered"
    /\ LET g == gather_settled(coro, finished) IN
       IF g.raiser # 0
       THEN /\ go_error' = GoError(coro[g.raiser].raised)
            /\ go_result' = go_result
       ELSE /\ go_result' = zip(keys(task_map), gather(coro, finished))
            /\ go_error' = go_error
    /\ session' = [session EXCEPT !.closed = TRUE]
    /\ closed' = SessionExit(session)
    /\ go_pc' = "exited"
    /\ ran' = {}
    /\ UNCHANGED <<config, tcp_connector, connectors, called, queued, coro, finished,
                   issued, failures, waits, answers, orphans, refused, calls>>

\* fetch.py:265  run_until_complete: the done-callback it put on _go's task
\* runs in the next loop iteration and calls loop.stop().
LoopStop ==
    /\ go_pc = "exited"
    /\ go_pc' = "stopping"
    /\ ran' = {}
    /\ UNCHANGED <<config, pool, session, called, queued, go_result, go_error, coro,
                   finished, issued, failures, waits, answers, orphans, refused, calls>>

\* fetch.py:264-265  the iteration in which the loop was stopped is over:
\* run_until_complete returns _go's result or raises its exception, and
\* go() with it.  The coroutines that are not done stay where they are.
GoReturn ==
    /\ go_pc = "stopping"
    /\ go_pc' = IF go_error # NoException THEN "raised" ELSE "returned"
    /\ orphans' = orphans \cup Orphaned(coro)
    /\ ran' = {}
    /\ UNCHANGED <<config, pool, session, called, queued, go_result, go_error, coro,
                   finished, issued, failures, waits, answers, refused, calls>>

\* ---------------------------------------------------------- fetch executor
bundle(i) == values(task_map)[i]

\* A budget that counts retries after the first attempt.
attempt_budget_plus_first(b) ==
    LET n == IF b.num_retries < 0 THEN max_retries ELSE b.num_retries
    IN  n + 1

\* fetch.py:195-203  the attempt budget of a bundle
attempt_budget(b) ==
    LET n == IF b.num_retries < 0 THEN max_retries ELSE b.num_retries
    IN  IF n <= 1 THEN 1 ELSE n

\* A coroutine that returned or raised: its frame (num_retries, max_retries,
\* last_exception) is gone, its result or exception stays with its task.
Returned(result) == [NewCoroutine EXCEPT !.pc = "returned", !.result = result]
Raised(e) == [NewCoroutine EXCEPT !.pc = "raised", !.raised = e]

\* A loop head that raises on exhaustion whatever fail_silently is.
fetch_loop_always_raise(c, b) ==
    IF c.num_retries > 0
    THEN [c EXCEPT !.num_retries = @ - 1, !.pc = "request"]
    ELSE Raised(c.last_exception)

\* fetch.py:207-208 and 244-248: the head of the while loop.  With attempts
\* left the coroutine issues the next request; without, it leaves the loop
\* and returns the empty result or raises the last exception.
fetch_loop(c, b) ==
    IF c.num_retries > 0
    THEN [c EXCEPT !.num_retries = @ - 1, !.pc = "request"]
    ELSE IF b.fail_silently
    THEN Returned(EmptyResult)
    ELSE Raised(c.last_exception)

\* An except branch that re-raises at once unless the task is fail_silently.
fetch_except_reraise(c, b, error) ==
    IF b.fail_silently
    THEN [c EXCEPT !.pc = "sleep", !.status = 0,
                   !.last_exception = AsyncFetchNetworkError(
                       b.url, error, c.num_retries, c.max_retries, 0)]
    ELSE Raised(AsyncFetchNetworkError(b.url, error, c.num_retries, c.max_retries, 0))

\* An except branch that skips the sleep once no attempt is left.
fetch_except_no_final_wait(c, b, error) ==
    LET e == AsyncFetchNetworkError(b.url, error, c.num_retries, c.max_retries, 0) IN
    IF c.num_retries > 0
    THEN [c EXCEPT !.pc = "sleep", !.status = 0, !.last_exception = e]
    ELSE IF b.fail_silently THEN Returned(EmptyResult) ELSE Raised(e)

\* An except branch that reports the attempts left before this one.
fetch_except_stale_count(c, b, error) ==
    [c EXCEPT !.pc = "sleep", !.status = 0,
              !.last_exception = AsyncFetchNetworkError(
                  b.url, error, c.num_retries + 1, c.max_retries, 0)]

\* fetch.py:234-242: TimeoutError or ClientOSError was raised inside the try,
\* by session.request or while the body was read.
fetch_except(c, b, error) ==
    [c EXCEPT !.pc = "sleep", !.status = 0,
              !.last_exception = AsyncFetchNetworkError(
                  b.url, error, c.num_retries, c.max_retries, 0)]

\* The exceptions of the endpoint's side that fetch.py:234 catches.
NetworkErrors == {"TimeoutError", "ClientOSError"}

\* How `await gen` (fetch.py:231) can end: the body decodes, the decoder
\* raises ValueError, or the read raises TimeoutError or ClientOSError.
BodyOutcomes(i) == DecodedBodies(i) \cup {<<"ValueError">>} \cup {<<e>> : e \in NetworkErrors}

\* The await the coroutine comes to once the response is there suspends
\* it: `await gen` when the body has not arrived, `await response.release()`
\* when the installed aiohttp yields there.
Pending == <<"pending">>

\* fetch.py:231-232 and 234: `await gen` is over.  It is inside the try of
\* line 210: a TimeoutError or ClientOSError of the read goes to the except
\* branch, a ValueError of the decoder leaves fetch.
fetch_body(c, b, status, body) ==
    IF body[1] \in NetworkErrors
    THEN fetch_except(c, b, body[1])
    ELSE IF body = <<"ValueError">>
    THEN Raised(ValueError(b.url))
    ELSE Returned(FetchResult("response.headers", body, status))

\* fetch.py:213-214 and 218-234: `await response.release()` is over.  A
\* do_not_wait coroutine returns the empty result; one answered a retryable
\* status raises the network error, which the except branch keeps.
fetch_released(c, b, status) ==
    IF b.do_not_wait
    THEN Returned(EmptyResult)
    ELSE [c EXCEPT !.pc = "sleep", !.status = 0,
                   !.last_exception = AsyncFetchNetworkError(
                       b.url, "None", c.num_retries, c.max_retries, status)]

\* A response handler that retries every status from 400 up.
fetch_response_retry_4xx(c, b, status, body) ==
    IF b.do_not_wait \/ status >= 400
    THEN IF body = Pending
         THEN [c EXCEPT !.pc = "release", !.status = status]
         ELSE fetch_released(c, b, status)
    ELSE IF body = Pending
    THEN [c EXCEPT !.pc = "body", !.status = status]
    ELSE fetch_body(c, b, status, body)

\* fetch.py:212-232: the request was answered with `status`; `body` is how
\* the await the coroutine comes to ends, Pending when it suspends first.
\* `await response.release()` (213, 218) gives the loop one iteration with
\* aiohttp from 3.8 on (its awaitable yields once) and none before; the
\* read of the body suspends when the body has not arrived.
fetch_response(c, b, status, body) ==
    IF b.do_not_wait \/ status \in RetryableStatuses
    THEN IF body = Pending
         THEN [c EXCEPT !.pc = "release", !.status = status]
         ELSE fetch_released(c, b, status)
    ELSE IF body = Pending
    THEN [c EXCEPT !.pc = "body", !.status = status]
    ELSE fetch_body(c, b, status, body)

\* fetch.py:211  session.request(...) of a coroutine about to issue its
\* request: on a closed session it raises RuntimeError('Session is closed'),
\* which fetch.py:234 does not catch.
session_request(c, s, b) ==
    IF c.pc = "request" /\ s.closed THEN Raised(RuntimeError(b.url)) ELSE c

\* A _go that awaits its coroutines one after the other.
Running_one_at_a_time(i) ==
    BatchRunning /\ i \in Tasks /\ i \notin ran
        /\ \A j \in Tasks : j < i => coro[j].pc \in {"returned", "raised"}

\* fetch.py:259  gather puts every coroutine of the task map on the loop as a
\* task; while the loop runs each can be resumed, once in an iteration.
Running(i) == BatchRunning /\ i \in Tasks /\ i \notin ran

\* gather schedules every coroutine before the loop runs any of them, and
\* each runs up to its first request without suspending: no coroutine is
\* resumed before all have started.
AllStarted == \A j \in Tasks : coro[j].pc # "created"

\* A fetch that writes the budget it resolved back into the bundle.
bundle_after_fetch_resolved(b) == [b EXCEPT !.num_retries = attempt_budget(b)]

\* fetch.py:188-196  aio_bundle = bundle.copy(): every pop acts on the copy,
\* the bundle in the task map is as it was.
bundle_after_fetch(b) == b

\* Bookkeeping of a step: 1 if it issued a request / ran the except branch.
Count(c2) == IF c2.pc = "request" THEN 1 ELSE 0
Excepted(c2) ==
    IF c2.pc = "sleep" \/ (c2.pc = "raised" /\ c2.raised.type = "AsyncFetchNetworkError")
    THEN 1 ELSE 0

\* fetch.py:188-211: the coroutine starts, resolves its budget and issues
\* its first request.
FetchStart(i) ==
    /\ Running(i)
    /\ coro[i].pc = "created"
    /\ LET b  == bundle(i)
           c1 == [coro[i] EXCEPT !.num_retries = attempt_budget(b),
                                 !.max_retries = attempt_budget(b)]
           c2 == session_request(fetch_loop(c1, b), session, b)
       IN  /\ Settle(i, c2)
           /\ issued' = [issued EXCEPT ![i] = @ + Count(c2)]
           /\ task_map' = [task_map EXCEPT ![i] = <<@[1], bundle_after_fetch(b)>>]
    /\ UNCHANGED <<max_retries, supplied, connector_owner, caller, pool, session, called,
                   queued, go_pc, go_result, go_error, failures, waits, answers, orphans,
                   calls>>

\* fetch.py:211-232: session.request returns a response.  The coroutine
\* returns, raises or sleeps at once, or is suspended again on the body.
Response(i) ==
    /\ Running(i)
    /\ AllStarted
    /\ coro[i].pc = "request"
    /\ \E status \in EndpointStatuses, body \in BodyOutcomes(i) \cup {Pending} :
         LET c2 == fetch_response(coro[i], bundle(i), status, body) IN
         /\ Settle(i, c2)
         /\ answers' = [answers EXCEPT ![i] = Outcome(@, status, c2)]
         /\ failures' = [failures EXCEPT ![i] = @ + Excepted(c2)]
    /\ UNCHANGED <<config, pool, session, called, queued, go_pc, go_result, go_error,
                   issued, waits, orphans, calls>>

\* fetch.py:231-232, 234-242: the read of the body the coroutine is
\* suspended on is over.
Body(i) ==
    /\ Running(i)
    /\ AllStarted
    /\ coro[i].pc = "body"
    /\ \E body \in BodyOutcomes(i) :
         LET c2 == fetch_body([coro[i] EXCEPT !.status = 0], bundle(i),
                              coro[i].status, body) IN
         /\ Settle(i, c2)
         /\ answers' = [answers EXCEPT ![i] = Outcome(@, coro[i].status, c2)]
         /\ failures' = [failures EXCEPT ![i] = @ + Excepted(c2)]
    /\ UNCHANGED <<config, pool, session, called, queued, go_pc, go_result, go_error,
                   issued, waits, orphans, calls>>

\* fetch.py:213-214, 218-223, 234-242: the coroutine suspended in
\* `await response.release()` is resumed one loop iteration later.
Release(i) ==
    /\ Running(i)
    /\ AllStarted
    /\ coro[i].pc = "release"
    /\ LET c2 == fetch_released(coro[i], bundle(i), coro[i].status) IN
         /\ Settle(i, c2)
         /\ failures' = [failures EXCEPT ![i] = @ + Excepted(c2)]
    /\ UNCHANGED <<config, pool, session, called, queued, go_pc, go_result, go_error,
                   issued, waits, answers, orphans, calls>>

\* fetch.py:211, 234-241: session.request raises TimeoutError or ClientOSError.
Failure(i) ==
    /\ Running(i)
    /\ AllStarted
    /\ coro[i].pc = "request"
    /\ \E error \in NetworkErrors :
         LET c2 == fetch_except(coro[i], bundle(i), error) IN
         /\ Settle(i, c2)
         /\ answers' = [answers EXCEPT ![i] = Errored(@)]
         /\ failures' = [failures EXCEPT ![i] = @ + Excepted(c2)]
    /\ UNCHANGED <<config, pool, session, called, queued, go_pc, go_result, go_error,
                   issued, waits, orphans, calls>>

\* fetch.py:242, 207-211, 244-248: asyncio.sleep(retry_timeout) is over.
Wake(i) ==
    /\ Running(i)
    /\ AllStarted
    /\ coro[i].pc = "sleep"
    /\ LET c2 == session_request(fetch_loop(coro[i], bundle(i)), session, bundle(i))
       IN  /\ Settle(i, c2)
           /\ issued' = [issued EXCEPT ![i] = @ + Count(c2)]
           /\ waits' = [waits EXCEPT ![i] = @ + 1]
    /\ UNCHANGED <<config, pool, session, called, queued, go_pc, go_result, go_error,
                   failures, answers, orphans, calls>>

\* An orphan the loop can resume: any while a batch runs, and before _go
\* starts those whose wake-up was left queued and has not run yet.
Resumable == IF called THEN orphans \cap queued ELSE orphans

\* Where an orphan waiting at `pc` can be suspended next (fetch.py:213, 218,
\* 231, 242).
OrphanNext(pc) ==
    IF pc = "request" THEN {"release", "body", "sleep"} ELSE {"sleep"}

\* The loop runs again (a later go(), fetch.py:265) and resumes a coroutine
\* an earlier go() left waiting for its response, for its body or in
\* `await response.release()`.  Its session was closed when that go() left
\* `async with`: the wait ends with a result or with an exception; fetch
\* returns, lets the exception through, is suspended on the next await, or
\* handles the exception (fetch.py:234-242) and sleeps.
OrphanResume ==
    /\ LoopRunning
    /\ \E o \in Resumable :
         /\ o.pc \in {"request", "body", "release"}
         /\ \/ orphans' = orphans \ {o}
            \/ \E pc \in OrphanNext(o.pc) :
                  orphans' = (orphans \ {o}) \cup {[o EXCEPT !.pc = pc]}
         /\ queued' = queued \ {o}
    /\ UNCHANGED <<config, pool, session, called, go_pc, go_result, go_error, coro,
                   finished, issued, failures, waits, answers, refused, ran, calls>>

\* The loop resumes a coroutine an earlier go() left in asyncio.sleep
\* (fetch.py:242).  With an attempt left it calls session.request on its
\* closed session (fetch.py:211), which raises RuntimeError('Session is
\* closed'), not caught at 234; without, it leaves the loop (244-248).
OrphanWake ==
    /\ LoopRunning
    /\ \E o \in Resumable :
         /\ o.pc = "sleep"
         /\ orphans' = orphans \ {o}
         /\ queued' = queued \ {o}
         /\ refused' = (refused \/ o.retrying)
    /\ UNCHANGED <<config, pool, session, called, go_pc, go_result, go_error, coro,
                   finished, issued, failures, waits, answers, ran, calls>>

Next ==
    \/ GoCall
    \/ Go
    \/ Acquire
    \/ Del
    \/ \E i \in Tasks : FetchStart(i)
    \/ \E i \in Tasks : Response(i)
    \/ \E i \in Tasks : Body(i)
    \/ \E i \in Tasks : Release(i)
    \/ \E i \in Tasks : Failure(i)
    \/ \E i \in Tasks : Wake(i)
    \/ GatherDone
    \/ SessionClose
    \/ GoExit
    \/ LoopStop
    \/ GoReturn
    \/ OrphanResume
    \/ OrphanWake

Spec == Init /\ [][Next]_vars

\* While the loop runs (run_until_complete, fetch.py:265) every request is
\* answered or fails, every body read and every asyncio.sleep ends, and
\* every callback that is due runs: a coroutine that can be resumed is
\* resumed.  Nothing obliges the caller to call go() again.
Fairness ==
    /\ \A i \in 1..Len(Keys) :
          /\ WF_vars(i \in Tasks /\ FetchStart(i))
          /\ WF_vars(i \in Tasks /\ (Response(i) \/ Failure(i)))
          /\ WF_vars(i \in Tasks /\ Body(i))
          /\ WF_vars(i \in Tasks /\ Release(i))
          /\ WF_vars(i \in Tasks /\ Wake(i))
    /\ WF_vars(Go)
    /\ WF_vars(GatherDone)
    /\ WF_vars(GoExit)
    /\ WF_vars(LoopStop)
    /\ WF_vars(GoReturn)
    /\ WF_vars(OrphanResume)
    /\ WF_vars(OrphanWake)

SpecLive == Init /\ [][Next]_vars /\ Fairness

\* ------------------------------------------------ FetchResult on its own
\* AsyncFetch({}) (tests/test_fetcher.py:111), on which nothing is called.
orchestrator == <<task_map, max_retries, supplied, connector_owner, pool, run, calls>>

InitEmpty ==
    /\ task_map = <<>>
    /\ max_retries = 0
    /\ supplied = NoConnector
    /\ connector_owner = connector_owner_of(supplied)
    /\ tcp_connector = supplied
    /\ connectors = {}
    /\ closed = {}
    /\ session = NoSession
    /\ called = FALSE
    /\ queued = {}
    /\ go_pc = "idle"
    /\ go_result = <<>>
    /\ go_error = NoException
    /\ coro = <<>>
    /\ finished = <<>>
    /\ issued = <<>>
    /\ failures = <<>>
    /\ waits = <<>>
    /\ answers = <<>>
    /\ orphans = {}
    /\ refused = FALSE
    /\ ran = {}
    /\ calls = 0

\* The keys a decoded JSON object body may have, the codes of its 'error'
\* member, and the transport statuses (tests/test_fetch_result.py:7-20, 37-48).
JsonKeys == {"jsonrpc", "error", "result"}
ErrorCodes == {200, 500, -32600}
TransportStatuses == {0, 199, 200, 299, 300, 500}

\* The values FetchResult is constructed with as result
\* (tests/test_fetch_result.py:37-73): None, {}, '', a text, 0, 1, (), and
\* the non-empty dicts over JsonKeys.
ResultValues ==
    {<<NoneValue>>, <<EmptyDict>>, PyStr({}), PyStr({"text"}), PyInt(0), PyInt(1), PyTuple({})}
    \cup {PyDict(ks, 0) : ks \in {k \in SUBSET JsonKeys : k # {} /\ "error" \notin k}}
    \cup {PyDict(ks, c) : ks \in {k \in SUBSET JsonKeys : "error" \in k}, c \in ErrorCodes}

\* fr = FetchResult(status=..., result=..., headers=...)
InitFetchResult ==
    /\ InitEmpty
    /\ fr \in {FetchResult("headers", r, st) : r \in ResultValues, st \in TransportStatuses}
    /\ fr_seen = NotSeen
    /\ mk_args = DefaultArgs
    /\ mk_ret = <<>>

\* fr.status is read
ReadStatus ==
    /\ ~fr_seen.status_read
    /\ fr_seen' = [fr_seen EXCEPT !.status_read = TRUE, !.status = FetchResult_status(fr)]
    /\ UNCHANGED <<orchestrator, fr, mk_args, mk_ret>>

\* bool(fr) is taken
ReadBool ==
    /\ ~fr_seen.bool_read
    /\ fr_seen' = [fr_seen EXCEPT !.bool_read = TRUE, !.bool = FetchResult_bool(fr)]
    /\ UNCHANGED <<orchestrator, fr, mk_args, mk_ret>>

NextFetchResult == ReadStatus \/ ReadBool

SpecFetchResult == InitFetchResult /\ [][NextFetchResult]_vars

\* ---------------------------------------------------- mk_task on its own
\* Number of mk_task calls made with the arguments the caller holds.
MaxMkTaskCalls == 2

\* The headers and data mk_task is called with (tests/test_fetcher.py:25-60).
HeaderArgs ==
    {NoneDict, Dict({}), Dict({<<"X-LOL", "1">>}), Dict({<<"content-type", "text/plain">>})}
DataArgs ==
    {<<NoneValue>>, <<EmptyDict>>, PyDict({"test"}, 0), PyStr({}), PyStr({"text"}),
     PyBytes({"b"}), PyFormData, PyInt(1)}

MkArgs ==
    {[DefaultArgs EXCEPT !.headers = h, !.data = d, !.api_key = k, !.language_code = l,
                         !.method = m, !.query = q, !.autodetect_content_type = a] :
        h \in HeaderArgs, d \in DataArgs, k \in {"", "api!key"}, l \in {NoneValue, "en"},
        m \in {"get", "POST"}, q \in {NoneDict, Dict({<<"page", "1">>})}, a \in BOOLEAN}

InitMkTask ==
    /\ InitEmpty
    /\ fr = FetchResult(NoneValue, <<NoneValue>>, 0)
    /\ fr_seen = NotSeen
    /\ mk_args \in MkArgs
    /\ mk_ret = <<>>

\* AsyncFetch.mk_task(**mk_args): the call is recorded with the caller's
\* headers before and after it; the caller goes on holding the same objects.
MkTask ==
    /\ Len(mk_ret) < MaxMkTaskCalls
    /\ LET r == mk_task(mk_args) IN
       /\ mk_ret' = Append(mk_ret, [before |-> mk_args.headers,
                                    after |-> r.headers,
                                    bundle |-> r.bundle])
       /\ mk_args' = [mk_args EXCEPT !.headers = r.headers]
    /\ UNCHANGED <<orchestrator, fr, fr_seen>>

NextMkTask == MkTask

SpecMkTask == InitMkTask /\ [][NextMkTask]_vars

\* ================================================================== claims
Done(i) == coro[i].pc \in {"returned", "raised"}

\* go() is back in its caller.
Ended == go_pc \in {"returned", "raised"}

\* Task i was cut off: the go() of its batch had left its session when the
\* task came to its next request, and session.request refused it.
Refused(i) == coro[i].pc = "raised" /\ coro[i].raised.type = "RuntimeError"

\* The first task of the batch that raised.
Raiser ==
    finished[CHOOSE k \in 1..Len(finished) :
                /\ coro[finished[k]].pc = "raised"
                /\ \A m \in 1..(k - 1) : coro[finished[m]].pc # "raised"]

\* The attempt budget B of task i as the specification words it: max(1, n),
\* n the descriptor's numRetries if it is >= 0, the executor's default otherwise.
Max(a, b) == IF a >= b THEN a ELSE b
B(i) == Max(1, IF bundle(i).num_retries >= 0 THEN bundle(i).num_retries ELSE max_retries)

\* The result a finished task of its own produced carries its own url's payload
\* or no payload at all.
OwnResult(i, r) ==
    /\ r = coro[i].result
    /\ coro[i].pc = "returned"
    /\ r.result \in {<<EmptyDict>>, Payload(i)}

\* C1: when go() returns normally, the returned mapping has exactly the keys
\* of the task map, in the task map's order, and the value at each key is
\* the result of that key's own task, whatever order the tasks finished in.
C1_ResultsKeyedByTask ==
    go_pc = "returned" =>
        /\ Len(go_result) = Len(task_map)
        /\ \A k \in 1..Len(task_map) :
              /\ go_result[k][1] = task_map[k][1]
              /\ go_result[k][1] = Keys[k]
              /\ OwnResult(k, go_result[k][2])

\* C1 witness: go() returned for two tasks, the second-keyed one finished
\* first, and the two results differ.
C1_Witness ==
    /\ go_pc = "returned"
    /\ finished = <<2, 1>>
    /\ go_result[1][2].status = 404
    /\ go_result[2][2].status = 200
    /\ go_result[1][2].result = Payload(1)
    /\ go_result[2][2].result = Payload(2)

\* A finished task whose executor raised a NetworkError.
RaisedNetworkError(i) ==
    coro[i].pc = "raised" /\ coro[i].raised.type = "AsyncFetchNetworkError"

\* Never more than B requests, and no NetworkError before the B-th has failed.
WithinBudget(i) ==
    /\ issued[i] <= B(i)
    /\ RaisedNetworkError(i) => issued[i] = B(i) /\ failures[i] = B(i)

\* C2 as claimed: a task with fail_silently false whose every attempt got a
\* retryable status, a timeout or a connection error issues exactly B
\* requests and then raises NetworkError.
C2_Original ==
    \A i \in Tasks :
        /\ WithinBudget(i)
        /\ (/\ Done(i)
            /\ ~bundle(i).fail_silently
            /\ answers[i] \in {<<"errors">>, <<"retryable">>})
           => RaisedNetworkError(i) /\ issued[i] = B(i)

\* Every attempt of task i failed retryably: it raised a timeout or a
\* connection error (from the request or from the read of the body) or, the
\* task not being do_not_wait, got a retryable status; none was refused.
EveryAttemptFailed(i) ==
    /\ ~Refused(i)
    /\ \/ answers[i] = <<"errors">>
       \/ answers[i] = <<"retryable">> /\ ~bundle(i).do_not_wait

\* C2, amended: a retryable status counts as a failed attempt only for a
\* task that is not do_not_wait.  Such a task with fail_silently false issues
\* exactly B requests and then raises NetworkError, never more than B requests
\* and never raising before the B-th attempt has failed.
C2_ExactlyBudgetThenRaise ==
    \A i \in Tasks :
        /\ WithinBudget(i)
        /\ (Done(i) /\ ~bundle(i).fail_silently /\ EveryAttemptFailed(i))
           => RaisedNetworkError(i) /\ issued[i] = B(i)

\* C2 witness: a task with an explicit budget of 2, both attempts answered 502.
C2_Witness ==
    \E i \in Tasks :
        /\ bundle(i).num_retries = 2
        /\ ~bundle(i).do_not_wait
        /\ answers[i] = <<"retryable">>
        /\ RaisedNetworkError(i)
        /\ coro[i].raised.response_code = 502
        /\ issued[i] = 2
        /\ go_pc = "raised"

\* C3 (mk_task docstring): num_retries = -1 means no retries, the request is
\* attempted exactly once whatever AsyncFetch.num_retries is; num_retries = 0
\* means AsyncFetch.num_retries is the budget.
C3_DocstringBudget ==
    \A i \in Tasks :
        /\ bundle(i).num_retries = -1 => issued[i] <= 1
        /\ (bundle(i).num_retries = 0 /\ RaisedNetworkError(i))
           => issued[i] = Max(1, max_retries)

\* Task i got a response with a non-retryable status, and the attempt that
\* got it is over.
GotStatus(i) == answers[i][1] = "status" /\ coro[i].pc # "release"

\* C4 as claimed: a response with a status outside 524, 504, 502, 408 ends
\* the task on that attempt with a normal result carrying that status; it is
\* never retried and never raised as an error.
C4_Original ==
    \A i \in Tasks :
        GotStatus(i) =>
            /\ coro[i].pc = "returned"
            /\ coro[i].result.status = answers[i][2]

\* C4, amended: such a response, its body read without a timeout or a
\* connection error, ends the task on that attempt, is never retried and
\* never raised as a NetworkError.  The task returns a normal result
\* carrying that status; or, if it is do_not_wait, the zero-status empty
\* result; or, if the body does not decode, it raises the decoder's
\* ValueError.  A run that returns has that task's result at its key.
C4_NonRetryableStatusEndsTask ==
    \A i \in Tasks :
        GotStatus(i) =>
            /\ Done(i)
            /\ issued[i] = failures[i] + 1
            /\ ~RaisedNetworkError(i)
            /\ IF bundle(i).do_not_wait
               THEN coro[i] = Returned(EmptyResult)
               ELSE \/ /\ coro[i].pc = "returned"
                       /\ coro[i].result.status = answers[i][2]
                       /\ coro[i].result.headers # NoneValue
                    \/ /\ coro[i].pc = "raised"
                       /\ coro[i].raised = ValueError(Url(i))
            /\ go_pc = "returned" => go_result[i][2] = coro[i].result

\* C4 witness: a batch of two returned, one task answered 404 on its second
\* attempt, the other answered 200.
C4_Witness ==
    /\ go_pc = "returned"
    /\ Len(task_map) = 2
    /\ answers[1] = <<"status", 404>>
    /\ issued[1] = 2
    /\ go_result[1][2].status = 404
    /\ go_result[2][2].status = 200

\* Task i left the retry loop with its budget exhausted: it is done and as
\* many attempts as its budget has ended in the except branch.
Exhausted(i) == Done(i) /\ failures[i] = B(i)

\* C5: a fail_silently task that exhausts its budget returns the zero-status
\* empty result instead of raising; the run is not made to raise by it, and
\* a run that returns has that record at the task's key and every other
\* task's own result at its key.
C5_SilentExhaustionReturnsEmpty ==
    \A i \in Tasks :
        (bundle(i).fail_silently /\ Exhausted(i)) =>
            /\ coro[i] = Returned(EmptyResult)
            /\ coro[i].result = [status |-> 0, headers |-> NoneValue, result |-> <<EmptyDict>>]
            /\ issued[i] = B(i)
            /\ go_pc = "raised" => \E j \in Tasks \ {i} : coro[j].pc = "raised"
            /\ (Ended /\ \A j \in Tasks : coro[j].pc = "returned") =>
                  /\ go_pc = "returned"
                  /\ go_result[i][2] = EmptyResult
                  /\ \A j \in Tasks : go_result[j][2] = coro[j].result

\* C5 witness: a batch of two returned; the first task, fail_silently, used
\* up a budget of two on 502 answers, the second got its own 200 result.
C5_Witness ==
    /\ go_pc = "returned"
    /\ Len(task_map) = 2
    /\ bundle(1).fail_silently /\ ~bundle(1).do_not_wait
    /\ Exhausted(1) /\ issued[1] = 2
    /\ go_result[1][2] = EmptyResult
    /\ go_result[2][2].status = 200
    /\ go_result[2][2].result = Payload(2)

\* C6: no failure originating in a fail_silently task makes the run raise:
\* whatever its attempts produce, the task does not raise, and when its
\* attempts produced an error its slot receives the zero-status empty result.
C6_SilentTaskNeverRaises ==
    \A i \in Tasks :
        bundle(i).fail_silently =>
            /\ coro[i].pc # "raised"
            /\ (go_pc = "raised" => \E j \in Tasks \ {i} : coro[j].pc = "raised")

\* C7: a do_not_wait task always ends with the zero-status empty result and
\* never with a raised error, whatever the endpoint does and whatever
\* fail_silently is.
C7_DoNotWaitAlwaysEmpty ==
    \A i \in Tasks :
        (bundle(i).do_not_wait /\ Done(i)) => coro[i] = Returned(EmptyResult)

\* C8: if a task's executor raises, go() raises and returns no mapping,
\* however many other tasks succeeded; the error go() raises is that of the
\* task that raised, of the first if several did (its NetworkError itself; a
\* ValueError wrapped as ReceiveError); and go() returns a mapping only if
\* every task's executor returned a result.
C8_AllOrNothing ==
    /\ \A i \in Tasks :
          coro[i].pc = "raised" =>
              /\ go_pc # "returned"
              /\ go_result = <<>>
              /\ Ended => go_pc = "raised"
    /\ go_pc = "raised" =>
          /\ \E i \in Tasks : coro[i].pc = "raised"
          /\ RaisedNetworkError(Raiser) =>
                /\ go_error = coro[Raiser].raised
                /\ go_error.url = Url(Raiser)
          /\ go_error.type \in {"AsyncFetchNetworkError", "AsyncFetchReceiveError"}
    /\ go_pc = "returned" =>
          /\ \A i \in Tasks : coro[i].pc = "returned"
          /\ go_error = NoException
          /\ Len(go_result) = Len(task_map)

\* C8 witness: the second task raised its NetworkError after the first had
\* returned a 200 result; go() raised the second task's error.
C8_Witness ==
    /\ go_pc = "raised"
    /\ Len(task_map) = 2
    /\ coro[1].pc = "returned" /\ coro[1].result.status = 200
    /\ RaisedNetworkError(2)
    /\ go_error.url = Url(2)
    /\ go_result = <<>>

\* C9 (states): a NetworkError has left the executor of task i only with
\* the budget exhausted and fail_silently false.
C9_RaisedOnlyWhenExhausted ==
    \A i \in Tasks :
        /\ RaisedNetworkError(i) =>
              /\ ~bundle(i).fail_silently
              /\ issued[i] = B(i)
              /\ failures[i] = B(i)
              /\ coro[i].raised.retries_left = 0
        /\ go_error.type = "AsyncFetchNetworkError" =>
              \E j \in Tasks : RaisedNetworkError(j) /\ go_error = coro[j].raised

\* C9 (steps): with attempts remaining, a retryable failure is absorbed: it
\* is recorded as last_exception, the task enters the retry wait, go() is
\* where it was, and the wait is followed by another call of
\* session.request: a request on the session of the batch, a refusal if go()
\* has left the session by then.
C9_AbsorbedStep ==
    \A i \in Tasks :
        /\ (/\ coro[i].pc \in {"request", "body", "release"} /\ coro[i].num_retries > 0
            /\ failures'[i] = failures[i] + 1) =>
              /\ coro'[i].pc = "sleep"
              /\ coro'[i].last_exception.type = "AsyncFetchNetworkError"
              /\ coro'[i].last_exception.retries_left = coro[i].num_retries
              /\ coro'[i].num_retries = coro[i].num_retries
              /\ go_pc' = go_pc
              /\ go_error' = go_error
        /\ (/\ BatchRunning
            /\ coro[i].pc = "sleep" /\ coro[i].num_retries > 0
            /\ coro'[i] # coro[i]) =>
              IF session.closed
              THEN coro'[i].pc = "raised" /\ coro'[i].raised.type = "RuntimeError"
              ELSE coro'[i].pc = "request" /\ issued'[i] = issued[i] + 1

\* C9: a NetworkError leaves the Fetch Executor only when the task's budget
\* is exhausted and fail_silently is false; while attempts remain a
\* retryable failure is absorbed and never propagated.
C9_NetworkErrorOnlyAfterBudget ==
    [](C9_RaisedOnlyWhenExhausted) /\ [][C9_AbsorbedStep]_vars

\* C9 witness: a task with fail_silently false is issuing its second
\* request, the failure of its first one recorded and absorbed.
C9_Witness ==
    \E i \in Tasks :
        /\ ~bundle(i).fail_silently
        /\ coro[i].pc = "request"
        /\ issued[i] = 2 /\ failures[i] = 1
        /\ coro[i].last_exception.type = "AsyncFetchNetworkError"
        /\ coro[i].last_exception.retries_left = 1
        /\ go_pc = "gather"

\* C10: a borrowed pool is never closed by the orchestrator: after any
\* sequence of get_tcp_connector, go (returning or raising) and __del__ the
\* supplied connector is open, it is still the instance's connector, it is
\* what get_tcp_connector returns, and the instance constructed no other.
C10_BorrowedPoolStaysOpen ==
    ~connector_owner =>
        /\ ExternalConnector \notin closed
        /\ tcp_connector = ExternalConnector
        /\ get_tcp_connector.connector = ExternalConnector
        /\ connectors = {ExternalConnector}
        /\ session.connector \in {NoConnector, ExternalConnector}

\* C10 witness: a borrowing orchestrator whose go() raised and which was
\* then torn down.
C10_Witness ==
    /\ ~connector_owner
    /\ go_pc = "raised"
    /\ session.closed /\ session.connector = ExternalConnector
    /\ calls = 2

\* C11: an owning orchestrator constructs its connector lazily and at most
\* once: none exists before the first get_tcp_connector / go / __del__, and
\* over any sequence of these at most one connector is ever constructed.
C11_Original ==
    connector_owner =>
        /\ (calls = 0 => connectors = {})
        /\ Cardinality(connectors) <= 1

\* C12: teardown of an owning orchestrator leaves every connector that the
\* instance constructed closed, also when it is the second teardown or the
\* connector was already closed; at any time at most the memoized connector
\* is open.
C12_OnlyMemoizedOpen ==
    connector_owner => (connectors \ closed) \subseteq {tcp_connector}

C12_TeardownStep ==
    (connector_owner /\ Del) => (connectors' \subseteq closed')

C12_TeardownClosesAll ==
    [](C12_OnlyMemoizedOpen) /\ [][C12_TeardownStep]_vars

\* C12 witness: an owning orchestrator torn down twice in a row: both
\* connectors it constructed are closed.
C12_Witness ==
    /\ connector_owner
    /\ go_pc = "idle"
    /\ calls = 2
    /\ Cardinality(connectors) = 2
    /\ connectors \subseteq closed

\* C13: the ownership flag is set iff no connector was supplied at
\* construction, and no operation changes it.
C13_FlagFromConstruction ==
    connector_owner <=> (supplied = NoConnector)

C13_FlagStep ==
    connector_owner' = connector_owner /\ supplied' = supplied

C13_OwnershipFixed ==
    [](C13_FlagFromConstruction) /\ [][C13_FlagStep]_vars

\* C13 witness: an owning orchestrator after a returned go() and a teardown
\* still carries the flag.
C13_Witness ==
    /\ connector_owner
    /\ supplied = NoConnector
    /\ go_pc = "returned"
    /\ calls = 2
    /\ connectors \subseteq closed
    /\ Cardinality(connectors) = 2

\* The body of fr is a JSON-RPC error envelope: a mapping with both a
\* 'jsonrpc' and an 'error' key.
ErrorEnvelope(r) == Len(r) = 3 /\ r[1] = "dict" /\ {"jsonrpc", "error"} \subseteq r[2]

\* The status the claim gives fr: the envelope's error.code, else the
\* transport status.
EffectiveStatus == IF ErrorEnvelope(fr.result) THEN fr.result[3] ELSE fr.status

\* C14: the status read off a FetchResult is error.code when its body is a
\* mapping with both a 'jsonrpc' and an 'error' key and the transport status
\* otherwise, and the record is truthy exactly when that status is in
\* 200..299.
C14_EffectiveStatus ==
    /\ fr_seen.status_read => fr_seen.status = EffectiveStatus
    /\ fr_seen.bool_read => (fr_seen.bool <=> EffectiveStatus \in 200..299)

\* C14 witness: a transport-200 record carrying a JSON-RPC error of code
\* 500 reads status 500 and is falsy.
C14_Witness ==
    /\ fr.status = 200
    /\ fr.result = PyDict({"jsonrpc", "error"}, 500)
    /\ fr_seen.status_read /\ fr_seen.status = 500
    /\ fr_seen.bool_read /\ ~fr_seen.bool

\* The calls of mk_task the content-type rule is about: autodetection on, a
\* mapping as data, no content-type among the headers supplied.
C15_Case(k) ==
    /\ mk_args.autodetect_content_type
    /\ isinstance(mk_args.data, "dict")
    /\ ~Has(mk_ret[k].before.items, "content-type")

\* The JSON text of a mapping, "{}" for the empty one.
JsonText(d) == IF d = <<EmptyDict>> THEN <<"json", "dict", {}, 0>> ELSE json_dumps(d)

\* C15: for such a call the bundle's headers have content-type
\* application/json and its data is the JSON text of the mapping, the
\* empty mapping included.
C15_Original ==
    \A k \in 1..Len(mk_ret) :
        C15_Case(k) =>
            /\ <<"content-type", "application/json">> \in mk_ret[k].bundle.headers
            /\ mk_ret[k].bundle.data = JsonText(mk_args.data)

\* C15 as the code has it: the headers get content-type application/json
\* for every mapping; a non-empty mapping becomes its JSON text, the empty
\* mapping is passed on as the empty mapping, not as text.
C15_JsonForMapping ==
    \A k \in 1..Len(mk_ret) :
        C15_Case(k) =>
            /\ <<"content-type", "application/json">> \in mk_ret[k].bundle.headers
            /\ ~Has(mk_ret[k].bundle.headers \ {<<"content-type", "application/json">>},
                    "content-type")
            /\ IF mk_args.data = <<EmptyDict>>
               THEN mk_ret[k].bundle.data = <<EmptyDict>>
               ELSE /\ mk_ret[k].bundle.data = json_dumps(mk_args.data)
                    /\ isinstance(mk_ret[k].bundle.data, "str")

\* C15 witness: mk_task(url, data={'test': 1}, method='POST',
\* headers={'X-LOL': '1'}) gave JSON text and both headers.
C15_Witness ==
    /\ Len(mk_ret) = 1
    /\ mk_args.data = PyDict({"test"}, 0)
    /\ mk_ret[1].before = Dict({<<"X-LOL", "1">>})
    /\ mk_ret[1].bundle.headers = {<<"X-LOL", "1">>, <<"content-type", "application/json">>}
    /\ mk_ret[1].bundle.data = <<"json", "dict", {"test"}, 0>>
    /\ mk_ret[1].bundle.method = "post"

\* C16: mk_task leaves the caller's headers as they were, and two calls
\* with the arguments the caller holds return equal bundles.
C16_SideEffectFree ==
    /\ \A k \in 1..Len(mk_ret) : mk_ret[k].after = mk_ret[k].before
    /\ Len(mk_ret) >= 2 => mk_ret[1].bundle = mk_ret[2].bundle

\* C17: the retry delay is waited exactly once after every failed attempt
\* (a retryable status, a timeout or a connection error), the last one
\* included: the waits a task has completed, plus the one it is in, equal
\* its failed attempts; a finished task has waited as often as it failed,
\* and a wait begins only in the step in which an attempt fails.
C17_WaitsMatchFailures ==
    \A i \in Tasks :
        /\ waits[i] + (IF coro[i].pc = "sleep" THEN 1 ELSE 0) = failures[i]
        /\ Done(i) => waits[i] = failures[i]
        /\ waits[i] <= issued[i]

C17_WaitStep ==
    \A i \in Tasks :
        (coro[i].pc # "sleep" /\ coro'[i].pc = "sleep")
            => /\ coro[i].pc \in {"request", "body", "release"}
               /\ failures'[i] = failures[i] + 1
               /\ issued'[i] = issued[i]

C17_OneWaitPerFailure ==
    [](C17_WaitsMatchFailures) /\ [][C17_WaitStep]_vars

\* C17 witness: a task that failed twice and raised has waited twice, the
\* second wait after its final attempt.
C17_Witness ==
    \E i \in Tasks :
        /\ RaisedNetworkError(i)
        /\ issued[i] = 2 /\ failures[i] = 2 /\ waits[i] = 2
        /\ go_pc = "raised"

\* C18: every NetworkError a task records carries max_retries = B and
\* retries_left = B - attempts made so far (0 <= retries_left < B); its
\* response code is the retryable status of the attempt, 0 for a timeout or
\* connection error; the error raised on exhaustion is the one recorded for
\* the last attempt and has retries_left = 0.
C18_Fields(i, e, attempts) ==
    /\ e.type = "AsyncFetchNetworkError"
    /\ e.max_retries = B(i)
    /\ e.retries_left = B(i) - attempts
    /\ 0 <= e.retries_left /\ e.retries_left < B(i)
    /\ IF e.original_exception = "None"
       THEN e.response_code \in RetryableStatuses
       ELSE e.response_code = 0

C18_Carries(i, e, attempts) ==
    /\ C18_Fields(i, e, attempts)
    /\ IF e.original_exception = "None"
       THEN answers[i] = <<"retryable">>
       ELSE answers[i] \in {<<"errors">>, <<"retryable">>}

C18_Recorded ==
    \A i \in Tasks :
        /\ coro[i].pc = "sleep" => C18_Carries(i, coro[i].last_exception, issued[i])
        /\ (coro[i].pc \in {"request", "body"} /\ issued[i] > 1)
              => C18_Carries(i, coro[i].last_exception, issued[i] - 1)
        /\ (coro[i].pc = "release" /\ issued[i] > 1)
              => C18_Fields(i, coro[i].last_exception, issued[i] - 1)
        /\ RaisedNetworkError(i)
              => C18_Carries(i, coro[i].raised, issued[i]) /\ coro[i].raised.retries_left = 0

C18_RaiseStep ==
    \A i \in Tasks :
        (/\ coro[i].pc = "sleep" /\ coro'[i].pc = "raised"
         /\ coro'[i].raised.type = "AsyncFetchNetworkError")
            => coro'[i].raised = coro[i].last_exception /\ coro[i].num_retries = 0

C18_NetworkErrorFields ==
    [](C18_Recorded) /\ [][C18_RaiseStep]_vars

\* C18 witness: a task with budget 2 answered 502 twice raised the error
\* of its second attempt.
C18_Witness ==
    \E i \in Tasks :
        /\ RaisedNetworkError(i)
        /\ B(i) = 2 /\ issued[i] = 2
        /\ coro[i].raised.response_code = 502
        /\ coro[i].raised.retries_left = 0
        /\ coro[i].raised.max_retries = 2

\* C19: a do_not_wait task is never retried: it issues exactly one request
\* whatever the outcome and whatever its budget.
C19_DoNotWaitOneRequest ==
    \A i \in Tasks : bundle(i).do_not_wait => issued[i] <= 1

\* C20: retry state is per task.  A step of one task changes no other
\* task's coroutine or counters; a task that ran to its end (it was not cut
\* off by the end of its go()) issued B requests if all of them failed and
\* one more than its failures otherwise; a task whose first attempt got a
\* non-retryable status was requested exactly once and keeps what it ended
\* with whatever the other tasks do.
C20_OwnCount ==
    \A i \in Tasks :
        /\ issued[i] <= B(i)
        /\ (Done(i) /\ ~Refused(i))
              => issued[i] = (IF failures[i] = issued[i] THEN B(i) ELSE failures[i] + 1)
        /\ (answers[i][1] = "status" /\ failures[i] = 0)
              => issued[i] = 1 /\ (Done(i) \/ coro[i].pc = "release")
C20_OwnStep ==
    \A i \in Tasks : \A j \in Tasks \ {i} :
        (BatchRunning /\ coro'[i] # coro[i])
            => /\ coro'[j] = coro[j]
               /\ issued'[j] = issued[j]
               /\ failures'[j] = failures[j]
               /\ waits'[j] = waits[j]
               /\ answers'[j] = answers[j]
C20_RetryStatePerTask ==
    [](C20_OwnCount) /\ [][C20_OwnStep]_vars

\* C20 witness: of two tasks the first got 200 on its only request and
\* finished first, the second failed once and was requested twice; the
\* returned mapping holds the first task's result at its key.
C20_Witness ==
    /\ go_pc = "returned"
    /\ Len(task_map) = 2
    /\ finished = <<1, 2>>
    /\ issued[1] = 1 /\ failures[1] = 0 /\ answers[1] = <<"status", 200>>
    /\ issued[2] = 2 /\ failures[2] = 1
    /\ go_result[1][2].status = 200
    /\ go_result[1][2].result = Payload(1)

\* C21: a go() acquires its session once, before any task issues a
\* request, starts exactly one coroutine per entry of the task map, and every
\* request of the batch goes through that session, open when the request is
\* issued; no step of a task acquires, constructs or closes a connector or a
\* session.  The session is open as long as _go awaits gather; only _go
\* closes it, on leaving `async with`, after every task has issued its
\* first request.
C21_OneSession ==
    /\ go_pc = "gather" => ~session.closed /\ tcp_connector \notin closed
    /\ go_pc \in {"gather", "gathered"} =>
        /\ session.connector = tcp_connector
        /\ tcp_connector # NoConnector
        /\ DOMAIN coro = 1..Len(task_map)
        /\ \A i \in Tasks : ~Done(i) => coro[i].session = session.connector
    /\ (go_pc = "gathered" /\ session.closed) =>
        /\ session.connector_owner /\ session.connector \in closed
        /\ \A i \in Tasks : issued[i] > 0
C21_BatchStep ==
    /\ (~BatchRunning /\ go_pc' = "gather")
          => \A i \in Tasks : issued'[i] = 0 /\ coro'[i].pc = "created"
    /\ (BatchRunning /\ coro' # coro)
          => session' = session /\ tcp_connector' = tcp_connector
                /\ connectors' = connectors /\ closed' = closed
    /\ \A i \in Tasks :
          (BatchRunning /\ issued'[i] # issued[i])
              => /\ issued'[i] = issued[i] + 1
                 /\ coro[i].session = session.connector
                 /\ ~session.closed /\ session.connector \notin closed
C21_OneSessionPerBatch ==
    [](C21_OneSession) /\ [][C21_BatchStep]_vars

\* C21 witness: an owning orchestrator's first go(), its connector made by
\* that call: the first task is at its second request, the second at its
\* first, both on the session of the batch.
C21_Witness ==
    /\ go_pc = "gather"
    /\ connector_owner /\ calls = 1 /\ Cardinality(connectors) = 1
    /\ Len(task_map) = 2
    /\ coro[1].pc = "request" /\ issued[1] = 2
    /\ coro[2].pc = "request" /\ issued[2] = 1
    /\ coro[1].session = session.connector /\ coro[2].session = session.connector

\* C22: a suspended task blocks no other: while the batch runs, every
\* unfinished task that has not yet run in the loop iteration under way can
\* take its next step whatever the others wait for: a task not yet started
\* can start; once all have started, a task waiting for its response can
\* get it (or its error), one waiting for its body can get that, one
\* releasing its response can go on, and a task in its retry wait can wake.
C22_NoBlocking ==
    go_pc = "gather" =>
        \A i \in Tasks \ ran :
            /\ coro[i].pc = "created" => ENABLED FetchStart(i)
            /\ (AllStarted /\ coro[i].pc = "request")
                  => (ENABLED Response(i)) /\ (ENABLED Failure(i))
            /\ (AllStarted /\ coro[i].pc = "body") => ENABLED Body(i)
            /\ (AllStarted /\ coro[i].pc = "release") => ENABLED Release(i)
            /\ (AllStarted /\ coro[i].pc = "sleep") => ENABLED Wake(i)

\* C22 witness: the second task has returned while the first is in its
\* retry wait, and the first can still wake.
C22_Witness ==
    /\ go_pc = "gather"
    /\ Len(task_map) = 2
    /\ coro[1].pc = "sleep"
    /\ coro[2].pc = "returned"
    /\ finished = <<2>>
    /\ ENABLED Wake(1)

\* C23: when go() raises because a task raised, no coroutine of the batch
\* is left pending: every other one has finished, and nothing is left on
\* the loop to resume later.
C23_NoPendingAfterRaise ==
    /\ go_pc = "raised" => \A i \in Tasks : Done(i)
    /\ orphans = {}

\* C24: a ValueError raised while a body is decoded is not retried and
\* makes go() raise ReceiveError around it; go() raises ReceiveError for
\* nothing else: a task's NetworkError reaches the caller as it is.
C24_ReceiveErrorIffValueError ==
    /\ go_pc = "raised" =>
          /\ coro[Raiser].pc = "raised"
          /\ go_error.type = "AsyncFetchReceiveError"
                <=> coro[Raiser].raised.type = "ValueError"
          /\ go_error.type = "AsyncFetchReceiveError"
                => go_error.original_exception = "ValueError"
          /\ RaisedNetworkError(Raiser) => go_error = coro[Raiser].raised
    /\ \A i \in Tasks :
          (coro[i].pc = "raised" /\ coro[i].raised.type = "ValueError")
              => /\ issued[i] = failures[i] + 1
                 /\ waits[i] = failures[i]
                 /\ answers[i][1] = "status"

\* C24 witness: a task retried once, then got a body that does not
\* decode; go() raised ReceiveError around the ValueError.
C24_Witness ==
    /\ go_pc = "raised"
    /\ go_error.type = "AsyncFetchReceiveError"
    /\ go_error.original_exception = "ValueError"
    /\ issued[Raiser] = 2 /\ failures[Raiser] = 1 /\ waits[Raiser] = 1

\* C25: executing a descriptor does not change it: no step changes a
\* bundle of the task map, so every execution of it, the second like the
\* first, starts from the same budget and flags.
C25_SameBudget ==
    \A i \in Tasks :
        coro[i].pc \in {"request", "body", "release", "sleep"}
            => /\ coro[i].max_retries = B(i)
               /\ coro[i].num_retries = B(i) - issued[i]

C25_DescriptorStep ==
    task_map' = task_map

C25_DescriptorUnchanged ==
    [](C25_SameBudget) /\ [][C25_DescriptorStep]_vars

\* C25 witness: in a go() after one that raised, a descriptor with
\* num_retries -1 under a default of 2 is again given two attempts.
C25_Witness ==
    /\ go_pc = "gather"
    /\ orphans # {}
    /\ \E i \in Tasks :
          /\ bundle(i).num_retries = -1 /\ max_retries = 2
          /\ coro[i].pc = "request" /\ issued[i] = 2
          /\ coro[i].max_retries = 2

\* C27: no request is issued on a closed session or connector: while _go
\* waits for the batch its session and connector are open, and no coroutine
\* has called session.request on a closed session.
C27_NoRequestOnClosedSession ==
    /\ ~refused
    /\ \A i \in Tasks :
          (go_pc = "gather" /\ coro[i].pc = "request")
              => ~session.closed /\ session.connector \notin closed

\* C26: every request and every retry wait ending in time, every fetch
\* coroutine ends, returning or raising, after at most B requests, and so
\* every go() returns or raises.
C26_Bounded ==
    \A i \in Tasks : issued[i] <= B(i)

C26_Started(i) == i \in Tasks /\ coro[i].pc \in {"request", "body", "release", "sleep"}

C26_Terminates ==
    /\ [](C26_Bounded)
    /\ \A i \in 1..Len(Keys) : C26_Started(i) ~> (i \in Tasks /\ Done(i))
    /\ (go_pc = "gather") ~> Ended

====
